---- MODULE Spec2Model ----
(***************************************************************************)
(* The multi-process pipeline of ring_buffer.c: producers -> Task Buffer   *)
(* -> workers -> Log Buffer -> loggers, driven by main().  Every statement *)
(* that touches shared memory, a semaphore, a child process or stdout is   *)
(* one step; statements that touch only locals are folded into the step    *)
(* that precedes them.                                                     *)
(***************************************************************************)
EXTENDS Integers, Sequences, FiniteSets, TLC

VARIABLES
    cfg,    \* the #define configuration of the run (scaled down)
    tb,     \* TaskBuffer in shared memory
    lb,     \* LogBuffer in shared memory
    pc,     \* statement each process is at
    loc,    \* locals of each process
    stdout, \* lines printed by the loggers
    hist    \* history: what was granted, written, set, cleared, posted

vars == <<cfg, tb, lb, pc, loc, stdout, hist>>

\* Largest taskSize a producer draws in the scaled-down runs.
MaxTasks == 2

\* The poison pill.
Sentinel == -1

\* <limits.h> and <stdlib.h> of the build: int is 32 bits wide, and rand()
\* returns an int in 0..RAND_MAX.
INT_MAX == 2147483647
RAND_MAX == 2147483647

BUFFER_SIZE == cfg.BUFFER_SIZE
MIN_TASK_SIZE == cfg.MIN_TASK_SIZE
MAX_TASK_SIZE == cfg.MAX_TASK_SIZE
PRODUCERS == cfg.PRODUCERS
WORKERS == cfg.WORKERS
LOGGERS == cfg.LOGGERS

\* Process identities; pid_t values are these identities, NoPid is the zero
\* of freshly mapped memory and of an unset local.
MainPid == <<"main", 0>>
NoPid == <<"none", 0>>
ProducerPids == {<<"producer", n>> : n \in 0..(PRODUCERS - 1)}
WorkerPids == {<<"worker", n>> : n \in 0..(WORKERS - 1)}
LoggerPids == {<<"logger", n>> : n \in 0..(LOGGERS - 1)}
Pids == {MainPid} \cup ProducerPids \cup WorkerPids \cup LoggerPids

TaskEntity == [producerPid |-> NoPid, data |-> 0, ready |-> 0]
LogEntity == [workerPid |-> NoPid, producerPid |-> NoPid, data |-> 0, ready |-> 0]

\* A zero-filled anonymous mapping.
TaskBuffer == [buffer |-> [s \in 0..(BUFFER_SIZE - 1) |-> TaskEntity],
               in |-> 0, out |-> 0, full |-> 0, empty |-> 0]
LogBuffer == [buffer |-> [s \in 0..(BUFFER_SIZE - 1) |-> LogEntity],
              in |-> 0, out |-> 0, full |-> 0, empty |-> 0]

Locals == [taskSize |-> 0, i |-> 0, prevIn |-> 0, prevOut |-> 0,
           data |-> 0, workerPid |-> NoPid, producerPid |-> NoPid]

\* prevIn % BUFFER_SIZE, prevOut % BUFFER_SIZE
Slot(cursor) == cursor % BUFFER_SIZE

\* A load and a store whose increment is lost.
FetchAndAddLost(old) == old

\* __sync_fetch_and_add(&x, 1): the value stored back.
FetchAndAdd(old) == old + 1

\* A wait that never blocks, and a wait that takes nothing.
SemNeverBlocks(count) == TRUE
SemWaitNoTake(count) == count

\* A post that adds two permits.
SemPostTwice(count) == count + 2

\* sem_wait returns only when the count is positive, and takes one.
SemCanWait(count) == count > 0
SemWait(count) == count - 1
SemPost(count) == count + 1

\* History of one buffer.
NoHist == [wgrant |-> <<>>, rgrant |-> <<>>, written |-> <<>>,
           sets |-> 0, clears |-> 0, fullPosts |-> 0, emptyPosts |-> 0]

\* What the writer granted a cursor has stored so far.
Unwritten == [producerPid |-> NoPid, workerPid |-> NoPid, data |-> 0,
              complete |-> FALSE]

HGrantW(h, k, p) ==
    [h EXCEPT !.wgrant = Append(@, [cursor |-> k, pid |-> p]),
              !.written = IF k \in DOMAIN @ THEN @ ELSE @ @@ (k :> Unwritten)]
HGrantR(h, k, p) == [h EXCEPT !.rgrant = Append(@, [cursor |-> k, pid |-> p])]
HWrite(h, k, f, v) == [h EXCEPT !.written[k][f] = v]
HSet(h, k) == [h EXCEPT !.written[k].complete = TRUE, !.sets = @ + 1]
HClear(h) == [h EXCEPT !.clears = @ + 1]
HPostFull(h) == [h EXCEPT !.fullPosts = @ + 1]
HPostEmpty(h) == [h EXCEPT !.emptyPosts = @ + 1]

\* A configuration of the run: the #defines, the values rand() returns to
\* each producer at line 88 (sizes) and at line 103 (vals), and the setup calls
\* of main that fail (none).
Config(c, p, w, l, min, max, sizes, vals) ==
    [BUFFER_SIZE |-> c, PRODUCERS |-> p, WORKERS |-> w, LOGGERS |-> l,
     MIN_TASK_SIZE |-> min, MAX_TASK_SIZE |-> max,
     sizes |-> sizes, vals |-> vals, faults |-> {}]

\* The setup calls of main that can fail: the two mmap calls and the four
\* sem_init calls.
SetupCalls == {"mmap_tb", "mmap_lb", "tb_empty", "tb_full", "lb_empty", "lb_full"}

\* The configuration c in an environment where the setup calls f fail.
Failing(c, f) == [c EXCEPT !.faults = f]

InitCfg(c) ==
    /\ cfg = c
    /\ tb = TaskBuffer
    /\ lb = LogBuffer
    /\ pc = [p \in Pids |-> IF p = MainPid THEN "mmap" ELSE "unborn"]
    /\ loc = [p \in Pids |-> Locals]
    /\ stdout = <<>>
    /\ hist = [tb |-> NoHist, lb |-> NoHist]

Goto(self, label) == pc' = [pc EXCEPT ![self] = label]

(***************************************************************************)
(* producer(tb)                                                            *)
(***************************************************************************)
\* An off-by-one draw of the payload: rand() % INT_MAX - 1.
RandDataFromMinusOne(r) == (r % INT_MAX) - 1

\* rand() % INT_MAX, in int arithmetic: both operands are non-negative, so the
\* C remainder is the mathematical one.
RandData(r) == r % INT_MAX

\* MIN_TASK_SIZE + rand() % MAX_TASK_SIZE, in int arithmetic, converted to ull.
TaskSize(r) == MIN_TASK_SIZE + (r % MAX_TASK_SIZE)

\* srand(time(NULL)); taskSize = MIN_TASK_SIZE + rand() % MAX_TASK_SIZE; i = 0
producer_start(self) ==
    /\ pc[self] = "start"
    /\ \E r \in cfg.sizes[self[2]] :
          loc' = [loc EXCEPT ![self].taskSize = TaskSize(r), ![self].i = 0]
    /\ Goto(self, "tb_wait_empty")
    /\ UNCHANGED <<cfg, tb, lb, stdout, hist>>

producer_sem_wait(self) ==
    /\ pc[self] = "tb_wait_empty"
    /\ SemCanWait(tb.empty)
    /\ tb' = [tb EXCEPT !.empty = SemWait(@)]
    /\ Goto(self, "tb_fetch_in")
    /\ UNCHANGED <<cfg, lb, loc, stdout, hist>>

producer_fetch_and_add(self) ==
    /\ pc[self] = "tb_fetch_in"
    /\ loc' = [loc EXCEPT ![self].prevIn = tb.in]
    /\ tb' = [tb EXCEPT !.in = FetchAndAdd(@)]
    /\ hist' = [hist EXCEPT !.tb = HGrantW(@, tb.in, self)]
    /\ Goto(self, "tb_write_pid")
    /\ UNCHANGED <<cfg, lb, stdout>>

producer_write_pid(self) ==
    /\ pc[self] = "tb_write_pid"
    /\ tb' = [tb EXCEPT !.buffer[Slot(loc[self].prevIn)].producerPid = self]
    /\ hist' = [hist EXCEPT !.tb = HWrite(@, loc[self].prevIn, "producerPid", self)]
    /\ Goto(self, "tb_write_data")
    /\ UNCHANGED <<cfg, lb, loc, stdout>>

\* data = rand() % INT_MAX
producer_write_data(self) ==
    /\ pc[self] = "tb_write_data"
    /\ \E r \in cfg.vals :
          /\ tb' = [tb EXCEPT !.buffer[Slot(loc[self].prevIn)].data = RandData(r)]
          /\ hist' = [hist EXCEPT !.tb = HWrite(@, loc[self].prevIn, "data",
                                                RandData(r))]
    /\ Goto(self, "tb_set_ready")
    /\ UNCHANGED <<cfg, lb, loc, stdout>>

producer_set_ready(self) ==
    /\ pc[self] = "tb_set_ready"
    /\ tb' = [tb EXCEPT !.buffer[Slot(loc[self].prevIn)].ready = 1]
    /\ hist' = [hist EXCEPT !.tb = HSet(@, loc[self].prevIn)]
    /\ Goto(self, "tb_post_full")
    /\ UNCHANGED <<cfg, lb, loc, stdout>>

\* sem_post(&tb->full); the end of the loop body (prevIn goes out of scope);
\* i++; the loop test; the return and exit(0) of the child
producer_sem_post(self) ==
    /\ pc[self] = "tb_post_full"
    /\ tb' = [tb EXCEPT !.full = SemPost(@)]
    /\ hist' = [hist EXCEPT !.tb = HPostFull(@)]
    /\ loc' = [loc EXCEPT ![self] = IF loc[self].i + 1 < loc[self].taskSize
                                    THEN [@ EXCEPT !.i = @ + 1, !.prevIn = 0]
                                    ELSE Locals]
    /\ Goto(self, IF loc[self].i + 1 < loc[self].taskSize
                  THEN "tb_wait_empty" ELSE "exited")
    /\ UNCHANGED <<cfg, lb, stdout>>


(***************************************************************************)
(* worker(tb, lb)                                                          *)
(***************************************************************************)
worker_sem_wait(self) ==
    /\ pc[self] = "tb_wait_full"
    /\ SemCanWait(tb.full)
    /\ tb' = [tb EXCEPT !.full = SemWait(@)]
    /\ Goto(self, "tb_fetch_out")
    /\ UNCHANGED <<cfg, lb, loc, stdout, hist>>

worker_fetch_and_add(self) ==
    /\ pc[self] = "tb_fetch_out"
    /\ loc' = [loc EXCEPT ![self].prevOut = tb.out]
    /\ tb' = [tb EXCEPT !.out = FetchAndAdd(@)]
    /\ hist' = [hist EXCEPT !.tb = HGrantR(@, tb.out, self)]
    /\ Goto(self, "tb_poll")
    /\ UNCHANGED <<cfg, lb, stdout>>

\* while (ready == 0) usleep(1): one test of the flag
worker_poll(self) ==
    /\ pc[self] = "tb_poll"
    /\ Goto(self, IF tb.buffer[Slot(loc[self].prevOut)].ready = 0
                  THEN "tb_poll" ELSE "tb_read_data")
    /\ UNCHANGED <<cfg, tb, lb, loc, stdout, hist>>

worker_read_data(self) ==
    /\ pc[self] = "tb_read_data"
    /\ loc' = [loc EXCEPT ![self].data = tb.buffer[Slot(loc[self].prevOut)].data]
    /\ Goto(self, "tb_read_pid")
    /\ UNCHANGED <<cfg, tb, lb, stdout, hist>>

\* workerPid = getpid(); producerPid = buffer[..].producerPid
worker_read_pid(self) ==
    /\ pc[self] = "tb_read_pid"
    /\ loc' = [loc EXCEPT ![self].workerPid = self,
                          ![self].producerPid =
                              tb.buffer[Slot(loc[self].prevOut)].producerPid]
    /\ Goto(self, "tb_clear")
    /\ UNCHANGED <<cfg, tb, lb, stdout, hist>>

worker_clear_ready(self) ==
    /\ pc[self] = "tb_clear"
    /\ tb' = [tb EXCEPT !.buffer[Slot(loc[self].prevOut)].ready = 0]
    /\ hist' = [hist EXCEPT !.tb = HClear(@)]
    /\ Goto(self, "tb_post_empty")
    /\ UNCHANGED <<cfg, lb, loc, stdout>>

\* A worker without the test for the poison pill: it forwards whatever it read.
worker_sem_post_no_exit(self) ==
    /\ pc[self] = "tb_post_empty"
    /\ tb' = [tb EXCEPT !.empty = SemPost(@)]
    /\ hist' = [hist EXCEPT !.tb = HPostEmpty(@)]
    /\ Goto(self, "lb_wait_empty")
    /\ UNCHANGED <<cfg, lb, loc, stdout>>

\* sem_post(&tb->empty); if (data == -1) exit(0)
worker_sem_post(self) ==
    /\ pc[self] = "tb_post_empty"
    /\ tb' = [tb EXCEPT !.empty = SemPost(@)]
    /\ hist' = [hist EXCEPT !.tb = HPostEmpty(@)]
    /\ Goto(self, IF loc[self].data = Sentinel THEN "exited" ELSE "lb_wait_empty")
    /\ loc' = [loc EXCEPT ![self] = IF loc[self].data = Sentinel THEN Locals ELSE @]
    /\ UNCHANGED <<cfg, lb, stdout>>

worker_log_sem_wait(self) ==
    /\ pc[self] = "lb_wait_empty"
    /\ SemCanWait(lb.empty)
    /\ lb' = [lb EXCEPT !.empty = SemWait(@)]
    /\ Goto(self, "lb_fetch_in")
    /\ UNCHANGED <<cfg, tb, loc, stdout, hist>>

worker_log_fetch_and_add(self) ==
    /\ pc[self] = "lb_fetch_in"
    /\ loc' = [loc EXCEPT ![self].prevIn = lb.in]
    /\ lb' = [lb EXCEPT !.in = FetchAndAdd(@)]
    /\ hist' = [hist EXCEPT !.lb = HGrantW(@, lb.in, self)]
    /\ Goto(self, "lb_write_data")
    /\ UNCHANGED <<cfg, tb, stdout>>

worker_log_write_data(self) ==
    /\ pc[self] = "lb_write_data"
    /\ lb' = [lb EXCEPT !.buffer[Slot(loc[self].prevIn)].data = loc[self].data]
    /\ hist' = [hist EXCEPT !.lb = HWrite(@, loc[self].prevIn, "data", loc[self].data)]
    /\ Goto(self, "lb_write_ppid")
    /\ UNCHANGED <<cfg, tb, loc, stdout>>

worker_log_write_ppid(self) ==
    /\ pc[self] = "lb_write_ppid"
    /\ lb' = [lb EXCEPT !.buffer[Slot(loc[self].prevIn)].producerPid =
                            loc[self].producerPid]
    /\ hist' = [hist EXCEPT !.lb = HWrite(@, loc[self].prevIn, "producerPid",
                                          loc[self].producerPid)]
    /\ Goto(self, "lb_write_wpid")
    /\ UNCHANGED <<cfg, tb, loc, stdout>>

worker_log_write_wpid(self) ==
    /\ pc[self] = "lb_write_wpid"
    /\ lb' = [lb EXCEPT !.buffer[Slot(loc[self].prevIn)].workerPid =
                            loc[self].workerPid]
    /\ hist' = [hist EXCEPT !.lb = HWrite(@, loc[self].prevIn, "workerPid",
                                          loc[self].workerPid)]
    /\ Goto(self, "lb_set_ready")
    /\ UNCHANGED <<cfg, tb, loc, stdout>>

worker_log_set_ready(self) ==
    /\ pc[self] = "lb_set_ready"
    /\ lb' = [lb EXCEPT !.buffer[Slot(loc[self].prevIn)].ready = 1]
    /\ hist' = [hist EXCEPT !.lb = HSet(@, loc[self].prevIn)]
    /\ Goto(self, "lb_post_full")
    /\ UNCHANGED <<cfg, tb, loc, stdout>>

\* sem_post(&lb->full); the end of the loop body: its locals go out of scope
worker_log_sem_post(self) ==
    /\ pc[self] = "lb_post_full"
    /\ lb' = [lb EXCEPT !.full = SemPost(@)]
    /\ hist' = [hist EXCEPT !.lb = HPostFull(@)]
    /\ loc' = [loc EXCEPT ![self] = Locals]
    /\ Goto(self, "tb_wait_full")
    /\ UNCHANGED <<cfg, tb, stdout>>


(***************************************************************************)
(* logger(lb)                                                              *)
(***************************************************************************)
logger_sem_wait(self) ==
    /\ pc[self] = "lb_wait_full"
    /\ SemCanWait(lb.full)
    /\ lb' = [lb EXCEPT !.full = SemWait(@)]
    /\ Goto(self, "lb_fetch_out")
    /\ UNCHANGED <<cfg, tb, loc, stdout, hist>>

logger_fetch_and_add(self) ==
    /\ pc[self] = "lb_fetch_out"
    /\ loc' = [loc EXCEPT ![self].prevOut = lb.out]
    /\ lb' = [lb EXCEPT !.out = FetchAndAdd(@)]
    /\ hist' = [hist EXCEPT !.lb = HGrantR(@, lb.out, self)]
    /\ Goto(self, "lb_poll")
    /\ UNCHANGED <<cfg, tb, stdout>>

logger_poll(self) ==
    /\ pc[self] = "lb_poll"
    /\ Goto(self, IF lb.buffer[Slot(loc[self].prevOut)].ready = 0
                  THEN "lb_poll" ELSE "lb_read_data")
    /\ UNCHANGED <<cfg, tb, lb, loc, stdout, hist>>

logger_read_data(self) ==
    /\ pc[self] = "lb_read_data"
    /\ loc' = [loc EXCEPT ![self].data = lb.buffer[Slot(loc[self].prevOut)].data]
    /\ Goto(self, "lb_read_wpid")
    /\ UNCHANGED <<cfg, tb, lb, stdout, hist>>

logger_read_wpid(self) ==
    /\ pc[self] = "lb_read_wpid"
    /\ loc' = [loc EXCEPT ![self].workerPid =
                              lb.buffer[Slot(loc[self].prevOut)].workerPid]
    /\ Goto(self, "lb_read_ppid")
    /\ UNCHANGED <<cfg, tb, lb, stdout, hist>>

logger_read_ppid(self) ==
    /\ pc[self] = "lb_read_ppid"
    /\ loc' = [loc EXCEPT ![self].producerPid =
                              lb.buffer[Slot(loc[self].prevOut)].producerPid]
    /\ Goto(self, "lb_clear")
    /\ UNCHANGED <<cfg, tb, lb, stdout, hist>>

logger_clear_ready(self) ==
    /\ pc[self] = "lb_clear"
    /\ lb' = [lb EXCEPT !.buffer[Slot(loc[self].prevOut)].ready = 0]
    /\ hist' = [hist EXCEPT !.lb = HClear(@)]
    /\ Goto(self, "lb_post_empty")
    /\ UNCHANGED <<cfg, tb, loc, stdout>>

\* sem_post(&lb->empty); if (data == -1) exit(0)
logger_sem_post(self) ==
    /\ pc[self] = "lb_post_empty"
    /\ lb' = [lb EXCEPT !.empty = SemPost(@)]
    /\ hist' = [hist EXCEPT !.lb = HPostEmpty(@)]
    /\ Goto(self, IF loc[self].data = Sentinel THEN "exited" ELSE "printf")
    /\ loc' = [loc EXCEPT ![self] = IF loc[self].data = Sentinel THEN Locals ELSE @]
    /\ UNCHANGED <<cfg, tb, stdout>>

\* printf("[LOG] Worker %d processed %d produced by %d\n", ...); the end of
\* the loop body: its locals go out of scope
logger_printf(self) ==
    /\ pc[self] = "printf"
    /\ stdout' = Append(stdout, [workerPid |-> loc[self].workerPid,
                                 data |-> loc[self].data,
                                 producerPid |-> loc[self].producerPid])
    /\ loc' = [loc EXCEPT ![self] = Locals]
    /\ Goto(self, "lb_wait_full")
    /\ UNCHANGED <<cfg, tb, lb, hist>>


(***************************************************************************)
(* main()                                                                  *)
(***************************************************************************)
\* A wait that returns at once, as with WNOHANG.
WaitPidNoHang(child) == TRUE

\* waitpid(pid, NULL, 0) returns once that child has exited.
WaitPid(child) == pc[child] = "exited"

\* The two mmap calls.  The result is not compared with MAP_FAILED: whether a
\* call failed is known from cfg.faults only.
main_mmap ==
    /\ pc[MainPid] = "mmap"
    /\ tb' = TaskBuffer
    /\ lb' = LogBuffer
    /\ Goto(MainPid, "sem_init")
    /\ UNCHANGED <<cfg, loc, stdout, hist>>

\* A main that spawns without having initialised the semaphores.
main_no_sem_init ==
    /\ pc[MainPid] = "sem_init"
    /\ Goto(MainPid, "fork_producers")
    /\ UNCHANGED <<cfg, tb, lb, loc, stdout, hist>>

\* A pointer of main is MAP_FAILED.
MapFailed == cfg.faults \cap {"mmap_tb", "mmap_lb"} # {}

\* What sem_init(&sem, 1, value) leaves in the semaphore `call`: a failed call
\* returns -1, which is ignored, and the count stays the zero of the mapping.
SemInit(call, value) == IF call \in cfg.faults THEN 0 ELSE value

\* the four sem_init calls; i = 0 of the first spawn loop.  Through a pointer
\* that is MAP_FAILED the first store is undefined: the process is killed by
\* SIGSEGV, or anything else happens.
main_sem_init ==
    /\ pc[MainPid] = "sem_init"
    /\ IF MapFailed
       THEN /\ \E outcome \in {"killed", "undefined"} : Goto(MainPid, outcome)
            /\ UNCHANGED <<tb, lb, loc>>
       ELSE /\ tb' = [tb EXCEPT !.empty = SemInit("tb_empty", BUFFER_SIZE),
                                !.full = SemInit("tb_full", 0)]
            /\ lb' = [lb EXCEPT !.empty = SemInit("lb_empty", BUFFER_SIZE),
                                !.full = SemInit("lb_full", 0)]
            /\ loc' = [loc EXCEPT ![MainPid].i = 0]
            /\ Goto(MainPid, "fork_producers")
    /\ UNCHANGED <<cfg, stdout, hist>>

\* One fork() of a spawn loop: the child starts at `first`; after the last
\* fork main moves on to `after`.
Fork(role, count, first, here, after) ==
    /\ pc[MainPid] = here
    /\ pc' = [pc EXCEPT ![<<role, loc[MainPid].i>>] = first,
                        ![MainPid] = IF loc[MainPid].i + 1 < count
                                     THEN here ELSE after]
    /\ loc' = [loc EXCEPT ![MainPid].i = IF loc[MainPid].i + 1 < count
                                         THEN @ + 1 ELSE 0]
    /\ UNCHANGED <<cfg, tb, lb, stdout, hist>>

main_fork_producer ==
    Fork("producer", PRODUCERS, "start", "fork_producers", "fork_workers")
main_fork_worker ==
    Fork("worker", WORKERS, "tb_wait_full", "fork_workers", "fork_loggers")
main_fork_logger ==
    Fork("logger", LOGGERS, "lb_wait_full", "fork_loggers", "wait_producers")

\* One waitpid() of a wait loop.
Wait(role, count, here, after) ==
    /\ pc[MainPid] = here
    /\ WaitPid(<<role, loc[MainPid].i>>)
    /\ Goto(MainPid, IF loc[MainPid].i + 1 < count THEN here ELSE after)
    /\ loc' = [loc EXCEPT ![MainPid].i = IF loc[MainPid].i + 1 < count
                                         THEN @ + 1 ELSE 0]
    /\ UNCHANGED <<cfg, tb, lb, stdout, hist>>

main_wait_producer == Wait("producer", PRODUCERS, "wait_producers", "tb_wait_empty")

\* send poison pill to worker
main_task_sem_wait ==
    /\ pc[MainPid] = "tb_wait_empty"
    /\ SemCanWait(tb.empty)
    /\ tb' = [tb EXCEPT !.empty = SemWait(@)]
    /\ Goto(MainPid, "tb_fetch_in")
    /\ UNCHANGED <<cfg, lb, loc, stdout, hist>>

main_task_fetch_and_add ==
    /\ pc[MainPid] = "tb_fetch_in"
    /\ loc' = [loc EXCEPT ![MainPid].prevIn = tb.in]
    /\ tb' = [tb EXCEPT !.in = FetchAndAdd(@)]
    /\ hist' = [hist EXCEPT !.tb = HGrantW(@, tb.in, MainPid)]
    /\ Goto(MainPid, "tb_write_data")
    /\ UNCHANGED <<cfg, lb, stdout>>

main_task_write_data ==
    /\ pc[MainPid] = "tb_write_data"
    /\ tb' = [tb EXCEPT !.buffer[Slot(loc[MainPid].prevIn)].data = Sentinel]
    /\ hist' = [hist EXCEPT !.tb = HWrite(@, loc[MainPid].prevIn, "data", Sentinel)]
    /\ Goto(MainPid, "tb_write_pid")
    /\ UNCHANGED <<cfg, lb, loc, stdout>>

main_task_write_pid ==
    /\ pc[MainPid] = "tb_write_pid"
    /\ tb' = [tb EXCEPT !.buffer[Slot(loc[MainPid].prevIn)].producerPid = MainPid]
    /\ hist' = [hist EXCEPT !.tb = HWrite(@, loc[MainPid].prevIn, "producerPid",
                                          MainPid)]
    /\ Goto(MainPid, "tb_set_ready")
    /\ UNCHANGED <<cfg, lb, loc, stdout>>

main_task_set_ready ==
    /\ pc[MainPid] = "tb_set_ready"
    /\ tb' = [tb EXCEPT !.buffer[Slot(loc[MainPid].prevIn)].ready = 1]
    /\ hist' = [hist EXCEPT !.tb = HSet(@, loc[MainPid].prevIn)]
    /\ Goto(MainPid, "tb_post_full")
    /\ UNCHANGED <<cfg, lb, loc, stdout>>

main_task_sem_post ==
    /\ pc[MainPid] = "tb_post_full"
    /\ tb' = [tb EXCEPT !.full = SemPost(@)]
    /\ hist' = [hist EXCEPT !.tb = HPostFull(@)]
    /\ Goto(MainPid, IF loc[MainPid].i + 1 < WORKERS
                     THEN "tb_wait_empty" ELSE "lb_wait_empty")
    /\ loc' = [loc EXCEPT ![MainPid].i = IF loc[MainPid].i + 1 < WORKERS
                                         THEN @ + 1 ELSE 0,
                          ![MainPid].prevIn = 0]
    /\ UNCHANGED <<cfg, lb, stdout>>

\* send poison pill to loggers
main_log_sem_wait ==
    /\ pc[MainPid] = "lb_wait_empty"
    /\ SemCanWait(lb.empty)
    /\ lb' = [lb EXCEPT !.empty = SemWait(@)]
    /\ Goto(MainPid, "lb_fetch_in")
    /\ UNCHANGED <<cfg, tb, loc, stdout, hist>>

main_log_fetch_and_add ==
    /\ pc[MainPid] = "lb_fetch_in"
    /\ loc' = [loc EXCEPT ![MainPid].prevIn = lb.in]
    /\ lb' = [lb EXCEPT !.in = FetchAndAdd(@)]
    /\ hist' = [hist EXCEPT !.lb = HGrantW(@, lb.in, MainPid)]
    /\ Goto(MainPid, "lb_write_data")
    /\ UNCHANGED <<cfg, tb, stdout>>

main_log_write_data ==
    /\ pc[MainPid] = "lb_write_data"
    /\ lb' = [lb EXCEPT !.buffer[Slot(loc[MainPid].prevIn)].data = Sentinel]
    /\ hist' = [hist EXCEPT !.lb = HWrite(@, loc[MainPid].prevIn, "data", Sentinel)]
    /\ Goto(MainPid, "lb_write_ppid")
    /\ UNCHANGED <<cfg, tb, loc, stdout>>

main_log_write_pid ==
    /\ pc[MainPid] = "lb_write_ppid"
    /\ lb' = [lb EXCEPT !.buffer[Slot(loc[MainPid].prevIn)].producerPid = MainPid]
    /\ hist' = [hist EXCEPT !.lb = HWrite(@, loc[MainPid].prevIn, "producerPid",
                                          MainPid)]
    /\ Goto(MainPid, "lb_set_ready")
    /\ UNCHANGED <<cfg, tb, loc, stdout>>

main_log_set_ready ==
    /\ pc[MainPid] = "lb_set_ready"
    /\ lb' = [lb EXCEPT !.buffer[Slot(loc[MainPid].prevIn)].ready = 1]
    /\ hist' = [hist EXCEPT !.lb = HSet(@, loc[MainPid].prevIn)]
    /\ Goto(MainPid, "lb_post_full")
    /\ UNCHANGED <<cfg, tb, loc, stdout>>

main_log_sem_post ==
    /\ pc[MainPid] = "lb_post_full"
    /\ lb' = [lb EXCEPT !.full = SemPost(@)]
    /\ hist' = [hist EXCEPT !.lb = HPostFull(@)]
    /\ Goto(MainPid, IF loc[MainPid].i + 1 < LOGGERS
                     THEN "lb_wait_empty" ELSE "wait_workers")
    /\ loc' = [loc EXCEPT ![MainPid].i = IF loc[MainPid].i + 1 < LOGGERS
                                         THEN @ + 1 ELSE 0,
                          ![MainPid].prevIn = 0]
    /\ UNCHANGED <<cfg, tb, stdout>>

main_wait_worker == Wait("worker", WORKERS, "wait_workers", "wait_loggers")
main_wait_logger == Wait("logger", LOGGERS, "wait_loggers", "munmap")

\* munmap of both buffers; return 0
main_munmap ==
    /\ pc[MainPid] = "munmap"
    /\ Goto(MainPid, "done")
    /\ UNCHANGED <<cfg, tb, lb, loc, stdout, hist>>


\* The steps on the Task Buffer side: main's setup, spawning, waiting and
\* task sentinels, the producers, and the workers' consumption.
TaskSideStep ==
    \/ main_mmap
    \/ main_sem_init
    \/ main_fork_producer
    \/ main_fork_worker
    \/ main_fork_logger
    \/ main_wait_producer
    \/ main_task_sem_wait
    \/ main_task_fetch_and_add
    \/ main_task_write_data
    \/ main_task_write_pid
    \/ main_task_set_ready
    \/ main_task_sem_post
    \/ main_wait_worker
    \/ main_wait_logger
    \/ main_munmap
    \/ \E self \in ProducerPids : producer_start(self)
    \/ \E self \in ProducerPids : producer_sem_wait(self)
    \/ \E self \in ProducerPids : producer_fetch_and_add(self)
    \/ \E self \in ProducerPids : producer_write_pid(self)
    \/ \E self \in ProducerPids : producer_write_data(self)
    \/ \E self \in ProducerPids : producer_set_ready(self)
    \/ \E self \in ProducerPids : producer_sem_post(self)
    \/ \E self \in WorkerPids : worker_sem_wait(self)
    \/ \E self \in WorkerPids : worker_fetch_and_add(self)
    \/ \E self \in WorkerPids : worker_poll(self)
    \/ \E self \in WorkerPids : worker_read_data(self)
    \/ \E self \in WorkerPids : worker_read_pid(self)
    \/ \E self \in WorkerPids : worker_clear_ready(self)
    \/ \E self \in WorkerPids : worker_sem_post(self)

\* The steps on the Log Buffer side: the workers' forwarding, the loggers, and
\* main's log sentinels.
LogSideStep ==
    \/ main_log_sem_wait
    \/ main_log_fetch_and_add
    \/ main_log_write_data
    \/ main_log_write_pid
    \/ main_log_set_ready
    \/ main_log_sem_post
    \/ \E self \in WorkerPids : worker_log_sem_wait(self)
    \/ \E self \in WorkerPids : worker_log_fetch_and_add(self)
    \/ \E self \in WorkerPids : worker_log_write_data(self)
    \/ \E self \in WorkerPids : worker_log_write_ppid(self)
    \/ \E self \in WorkerPids : worker_log_write_wpid(self)
    \/ \E self \in WorkerPids : worker_log_set_ready(self)
    \/ \E self \in WorkerPids : worker_log_sem_post(self)
    \/ \E self \in LoggerPids : logger_sem_wait(self)
    \/ \E self \in LoggerPids : logger_fetch_and_add(self)
    \/ \E self \in LoggerPids : logger_poll(self)
    \/ \E self \in LoggerPids : logger_read_data(self)
    \/ \E self \in LoggerPids : logger_read_wpid(self)
    \/ \E self \in LoggerPids : logger_read_ppid(self)
    \/ \E self \in LoggerPids : logger_clear_ready(self)
    \/ \E self \in LoggerPids : logger_sem_post(self)
    \/ \E self \in LoggerPids : logger_printf(self)

Next == TaskSideStep \/ LogSideStep

\* One producer of 1..MaxTasks values, two workers and one logger on
\* buffers of two slots.
Init ==
    InitCfg(Config(2, 1, 2, 1, 1, MaxTasks, [n \in 0..0 |-> 0..(MaxTasks - 1)], {7}))

Spec == Init /\ [][Next]_vars

(***************************************************************************)
(* Vocabulary of the properties                                            *)
(***************************************************************************)
Exited(S) == \A p \in S : pc[p] = "exited"

\* A writer is in its window from its fetch-and-add of `in` until it has set
\* ready; a reader from the return of its poll until it has cleared ready.
TbWriteWindow == {"tb_write_pid", "tb_write_data", "tb_set_ready"}
TbReadWindow == {"tb_read_data", "tb_read_pid", "tb_clear"}
LbWriteWindow == {"lb_write_data", "lb_write_ppid", "lb_write_wpid", "lb_set_ready"}
LbReadWindow == {"lb_read_data", "lb_read_wpid", "lb_read_ppid", "lb_clear"}

TbWriters == ProducerPids \cup {MainPid}
LbWriters == WorkerPids \cup {MainPid}

\* The semaphores are initialised
Running == pc[MainPid] \notin {"mmap", "sem_init"}

\* The cursors granted so far, in the order they were granted
Cursors(grants) == [n \in 1..Len(grants) |-> grants[n].cursor]
Distinct(seq) == \A m, n \in 1..Len(seq) : m # n => seq[m] # seq[n]

\* Values the producers have stored in the Task Buffer
Produced ==
    {k \in DOMAIN hist.tb.written : hist.tb.written[k].producerPid \in ProducerPids}

\* Some step that changes the state can be taken
Progress == Next /\ vars' # vars

\* C1: each value published at write cursor k is read by exactly one
\* consumer, the one granted read cursor k: what a worker or logger has read
\* from its slot is the complete entry stored by the writer of the same
\* cursor (main stores no workerPid with a log sentinel), and no read cursor
\* is granted twice.
C1_ExactlyOnce ==
    /\ \A w \in WorkerPids :
          pc[w] = "tb_clear" =>
              /\ loc[w].prevOut \in DOMAIN hist.tb.written
              /\ hist.tb.written[loc[w].prevOut].complete
              /\ hist.tb.written[loc[w].prevOut].data = loc[w].data
              /\ hist.tb.written[loc[w].prevOut].producerPid = loc[w].producerPid
    /\ \A l \in LoggerPids :
          pc[l] = "lb_clear" =>
              /\ loc[l].prevOut \in DOMAIN hist.lb.written
              /\ hist.lb.written[loc[l].prevOut].complete
              /\ hist.lb.written[loc[l].prevOut].data = loc[l].data
              /\ hist.lb.written[loc[l].prevOut].producerPid = loc[l].producerPid
              /\ hist.lb.written[loc[l].prevOut].workerPid \in {NoPid, loc[l].workerPid}
    /\ Distinct(Cursors(hist.tb.rgrant))
    /\ Distinct(Cursors(hist.lb.rgrant))

\* C2: in a complete run the loggers have printed one record for every
\* value the producers published.
C2_RoundTrip ==
    pc[MainPid] = "done" => Len(stdout) = Cardinality(Produced)

\* C3: once main has injected the WORKERS task sentinels and the LOGGERS log
\* sentinels, no worker or logger is left blocked or polling with nothing
\* in the system able to move.
C3_Shutdown ==
    pc[MainPid] \in {"wait_workers", "wait_loggers", "munmap", "done"} =>
        \/ Exited(WorkerPids) /\ Exited(LoggerPids)
        \/ ENABLED Progress

\* C4: main holds a Log Buffer write cursor for a logger sentinel only after
\* every worker has exited.
C4_WorkersBeforeLoggers ==
    (\E n \in 1..Len(hist.lb.wgrant) : hist.lb.wgrant[n].pid = MainPid) =>
        Exited(WorkerPids)

\* C6: from the return of its poll until it clears the flag, a consumer's slot
\* has ready = 1.
C6_ReadyGate ==
    /\ \A w \in WorkerPids :
          pc[w] \in TbReadWindow => tb.buffer[Slot(loc[w].prevOut)].ready = 1
    /\ \A l \in LoggerPids :
          pc[l] \in LbReadWindow => lb.buffer[Slot(loc[l].prevOut)].ready = 1

\* C7: no two writers of the Task Buffer are in their write windows on the
\* same physical slot.
C7_ExclusiveWrite ==
    \A p, q \in TbWriters :
        (p # q /\ pc[p] \in TbWriteWindow /\ pc[q] \in TbWriteWindow) =>
            Slot(loc[p].prevIn) # Slot(loc[q].prevIn)

\* C5: main is in its task-sentinel loop, or holds a Task Buffer cursor, only
\* after every producer has exited; every cursor granted to a producer is
\* smaller than every cursor granted to main; and a worker holds a sentinel
\* it has read only after every producer has exited.
C5_ProducersBeforeSentinels ==
    /\ pc[MainPid] \in ({"tb_wait_empty", "tb_fetch_in", "tb_post_full"}
                        \cup TbWriteWindow) => Exited(ProducerPids)
    /\ (\E n \in 1..Len(hist.tb.wgrant) : hist.tb.wgrant[n].pid = MainPid) =>
           Exited(ProducerPids)
    /\ \A m, n \in 1..Len(hist.tb.wgrant) :
           (hist.tb.wgrant[m].pid \in ProducerPids /\ hist.tb.wgrant[n].pid = MainPid)
               => hist.tb.wgrant[m].cursor < hist.tb.wgrant[n].cursor
    /\ \A w \in WorkerPids :
           (pc[w] \in {"tb_read_pid", "tb_clear", "tb_post_empty"}
               /\ loc[w].data = Sentinel) => Exited(ProducerPids)

\* A worker has consumed a sentinel that main injected behind a produced value.
C5_Witness ==
    /\ \E w \in WorkerPids : pc[w] = "tb_post_empty" /\ loc[w].data = Sentinel
    /\ Produced # {}
    /\ \E n \in 1..Len(hist.tb.wgrant) : hist.tb.wgrant[n].pid = MainPid

\* The cursors of one direction of one buffer are 0, 1, 2, ... in the order
\* granted, and any two of them less than BUFFER_SIZE apart map to different
\* physical slots.
UniqueCursors(grants) ==
    /\ \A n \in 1..Len(grants) : grants[n].cursor = n - 1
    /\ \A m, n \in 1..Len(grants) :
           (m # n /\ grants[m].cursor - grants[n].cursor < BUFFER_SIZE
                  /\ grants[n].cursor - grants[m].cursor < BUFFER_SIZE)
               => Slot(grants[m].cursor) # Slot(grants[n].cursor)

\* C8: no two claims of the same direction on the same buffer receive the same
\* cursor, the cursors are handed out as 0, 1, 2, ... without gaps, and within
\* any BUFFER_SIZE consecutive cursors the physical indices are distinct.
C8_UniqueCursors ==
    /\ UniqueCursors(hist.tb.wgrant)
    /\ UniqueCursors(hist.tb.rgrant)
    /\ UniqueCursors(hist.lb.wgrant)
    /\ UniqueCursors(hist.lb.rgrant)

\* Both cursors of the Task Buffer have wrapped and the Log Buffer is in use.
C8_Witness ==
    /\ Len(hist.tb.wgrant) > BUFFER_SIZE
    /\ Len(hist.tb.rgrant) > BUFFER_SIZE
    /\ Len(hist.lb.wgrant) >= 2
    /\ Len(hist.lb.rgrant) >= 2

\* Processes at one of the statements `labels`
At(S, labels) == Cardinality({p \in S : pc[p] \in labels})

\* C9 as stated: counting a writer from its fetch-and-add of the write cursor
\* to its post of full, and a reader from its fetch-and-add of the read cursor
\* to its post of empty, the counts and the two semaphores add up to
\* BUFFER_SIZE.
C9_CapacityBySlot ==
    Running =>
        /\ tb.empty + tb.full
             + At(TbWriters, TbWriteWindow \cup {"tb_post_full"})
             + At(WorkerPids, {"tb_poll", "tb_post_empty"} \cup TbReadWindow)
           = BUFFER_SIZE
        /\ lb.empty + lb.full
             + At(LbWriters, LbWriteWindow \cup {"lb_post_full"})
             + At(LoggerPids, {"lb_poll", "lb_post_empty"} \cup LbReadWindow)
           = BUFFER_SIZE

\* C9 (amended): the write cursors granted exceed the completed consumes by
\* at most BUFFER_SIZE; both semaphores stay within 0..BUFFER_SIZE; and,
\* counting a writer from its sem_wait on empty to its post of full and a
\* reader from its sem_wait on full to its post of empty, the counts and the
\* two semaphores add up to BUFFER_SIZE.
C9_Capacity ==
    Running =>
        /\ Len(hist.tb.wgrant) - hist.tb.emptyPosts <= BUFFER_SIZE
        /\ Len(hist.lb.wgrant) - hist.lb.emptyPosts <= BUFFER_SIZE
        /\ tb.empty \in 0..BUFFER_SIZE /\ tb.full \in 0..BUFFER_SIZE
        /\ lb.empty \in 0..BUFFER_SIZE /\ lb.full \in 0..BUFFER_SIZE
        /\ tb.empty + tb.full
             + At(TbWriters, TbWriteWindow \cup {"tb_fetch_in", "tb_post_full"})
             + At(WorkerPids, {"tb_fetch_out", "tb_poll", "tb_post_empty"}
                              \cup TbReadWindow)
           = BUFFER_SIZE
        /\ lb.empty + lb.full
             + At(LbWriters, LbWriteWindow \cup {"lb_fetch_in", "lb_post_full"})
             + At(LoggerPids, {"lb_fetch_out", "lb_poll", "lb_post_empty"}
                              \cup LbReadWindow)
           = BUFFER_SIZE

\* The Task Buffer has wrapped and every one of its slots is held by a
\* writer or a reader, one of them between its sem_wait and its fetch-and-add.
C9_Witness ==
    /\ Running
    /\ Len(hist.tb.wgrant) > BUFFER_SIZE
    /\ tb.empty = 0 /\ tb.full = 0
    /\ \E p \in TbWriters : pc[p] = "tb_fetch_in"
    /\ \E w \in WorkerPids : pc[w] \in TbReadWindow

\* C10: on the Task Buffer, a writer in its write window and a reader in its
\* read window are never on the same slot, and the set-ready and clear-ready
\* events alternate, starting with a set: a writer is in its window only
\* when every set has been cleared, a reader only when exactly one has not.
C10_Capacity1 ==
    /\ \A p \in TbWriters, w \in WorkerPids :
           (pc[p] \in TbWriteWindow /\ pc[w] \in TbReadWindow)
               => Slot(loc[p].prevIn) # Slot(loc[w].prevOut)
    /\ hist.tb.sets - hist.tb.clears \in {0, 1}
    /\ \A p \in TbWriters :
           pc[p] \in TbWriteWindow => hist.tb.sets = hist.tb.clears
    /\ \A w \in WorkerPids :
           pc[w] \in TbReadWindow => hist.tb.sets = hist.tb.clears + 1

\* The single slot is on its third round: read twice and being read again.
C10_Witness ==
    /\ BUFFER_SIZE = 1
    /\ hist.tb.clears >= 2
    /\ \E w \in WorkerPids : pc[w] \in TbReadWindow

\* One producer, one worker and one logger on buffers of a single slot.
InitCap1 ==
    InitCfg(Config(1, 1, 1, 1, 1, MaxTasks, [n \in 0..0 |-> 0..(MaxTasks - 1)],
                   {7, 42}))

SpecCap1 == InitCap1 /\ [][Next]_vars

\* A scheduler that runs the Log Buffer side first: a Task Buffer side step is
\* taken only when no Log Buffer side step can change the state.  Every
\* behaviour under this scheduler is a behaviour of the program.
LogSideReady == ENABLED (LogSideStep /\ vars' # vars)

NextLogFirst == LogSideStep \/ (~LogSideReady /\ TaskSideStep)

\* Two producers, of one value and of three, two workers and one logger on
\* buffers of three slots.
InitWide ==
    InitCfg(Config(3, 2, 2, 1, 1, 3, [n \in 0..1 |-> IF n = 0 THEN {0} ELSE {2}], {7}))

SpecWide == InitWide /\ [][NextLogFirst]_vars

\* The single chain: one producer of three values drawn from 7, 42 and 99, one
\* worker and one logger on buffers of four slots.
InitChain == InitCfg(Config(4, 1, 1, 1, 1, 3, [n \in 0..0 |-> {2}], {7, 42, 99}))

SpecChain == InitChain /\ [][Next]_vars

\* The payloads the producers published, in write-cursor order (the producers'
\* cursors precede main's).
ProducedData == [n \in 1..Cardinality(Produced) |-> hist.tb.written[n - 1].data]

\* C11: with one producer, one worker and one logger, the records printed are
\* the produced values in the order they were published, one record each, and
\* once the logger has exited on the sentinel every produced value has been
\* printed.
C11_SingleChain ==
    /\ Len(stdout) <= Cardinality(Produced)
    /\ \A n \in 1..Len(stdout) :
           /\ n <= Cardinality(Produced)
           /\ stdout[n].data = ProducedData[n]
    /\ Exited(LoggerPids) =>
           /\ Exited(ProducerPids)
           /\ Len(stdout) = Cardinality(Produced)

\* One producer of one or two values, one worker and one logger on buffers of
\* a single slot, in an environment where one of the setup calls fails.
InitFault ==
    \E call \in SetupCalls :
        InitCfg(Failing(Config(1, 1, 1, 1, 1, MaxTasks,
                               [n \in 0..0 |-> 0..(MaxTasks - 1)], {7}), {call}))

SpecFault == InitFault /\ [][Next]_vars

\* C12: when an mmap or a sem_init call of main fails, main goes no further
\* than its setup (it is still in it, or its run ended at the store through
\* MAP_FAILED): no producer, worker or logger is ever spawned and no buffer is
\* ever used.
C12_FatalSetup ==
    cfg.faults # {} =>
        /\ pc[MainPid] \in {"mmap", "sem_init", "killed", "undefined"}
        /\ \A p \in Pids \ {MainPid} : pc[p] = "unborn"
        /\ hist = [tb |-> NoHist, lb |-> NoHist]

\* The producers, workers and loggers
Roles == ProducerPids \cup WorkerPids \cup LoggerPids

SpecFair == Init /\ [][Next]_vars /\ WF_vars(Progress)

\* Every process that has not exited is blocked in a sem_wait or a waitpid
\* that cannot return.
AllBlocked == ~ ENABLED Next

\* C14: until main has released the buffers, the processes are never all
\* blocked and some step that changes the state can always be taken; and,
\* under weak fairness, main eventually reaches the end of its teardown.
C14_DeadlockFree ==
    /\ [](pc[MainPid] # "done" => ~ AllBlocked /\ ENABLED Progress)
    /\ <>(pc[MainPid] = "done")

\* The statements at which a writer is about to store a payload or origin
\* field of its slot
TbFieldStores == {"tb_write_pid", "tb_write_data"}
LbFieldStores == {"lb_write_data", "lb_write_ppid", "lb_write_wpid"}

\* C15: a slot whose ready flag is 1 holds the complete entry of one write
\* cursor and no writer is about to store a field of it; and a writer in its
\* write window finds its slot with ready = 0 and with no consumer between
\* the return of its poll and its clear of ready.
C15_PublishDiscipline ==
    /\ \A s \in 0..(BUFFER_SIZE - 1) :
           tb.buffer[s].ready = 1 =>
               /\ \A p \in TbWriters :
                      pc[p] \in TbFieldStores => Slot(loc[p].prevIn) # s
               /\ \E k \in DOMAIN hist.tb.written :
                      /\ Slot(k) = s
                      /\ hist.tb.written[k].complete
                      /\ hist.tb.written[k].data = tb.buffer[s].data
                      /\ hist.tb.written[k].producerPid = tb.buffer[s].producerPid
    /\ \A s \in 0..(BUFFER_SIZE - 1) :
           lb.buffer[s].ready = 1 =>
               /\ \A p \in LbWriters :
                      pc[p] \in LbFieldStores => Slot(loc[p].prevIn) # s
               /\ \E k \in DOMAIN hist.lb.written :
                      /\ Slot(k) = s
                      /\ hist.lb.written[k].complete
                      /\ hist.lb.written[k].data = lb.buffer[s].data
                      /\ hist.lb.written[k].producerPid = lb.buffer[s].producerPid
    /\ \A p \in TbWriters :
           pc[p] \in TbWriteWindow =>
               /\ tb.buffer[Slot(loc[p].prevIn)].ready = 0
               /\ \A w \in WorkerPids :
                      pc[w] \in TbReadWindow => Slot(loc[w].prevOut) # Slot(loc[p].prevIn)
    /\ \A p \in LbWriters :
           pc[p] \in LbWriteWindow =>
               /\ lb.buffer[Slot(loc[p].prevIn)].ready = 0
               /\ \A l \in LoggerPids :
                      pc[l] \in LbReadWindow => Slot(loc[l].prevOut) # Slot(loc[p].prevIn)

\* The statements of a worker's forwarding to the Log Buffer
LbForward == {"lb_wait_empty", "lb_fetch_in", "lb_post_full"} \cup LbWriteWindow

\* What holds of the workers and of the Log Buffer in every state
C16_State ==
    /\ \A w \in WorkerPids : pc[w] \in LbForward => loc[w].data # Sentinel
    /\ \A n \in 1..Len(hist.lb.wgrant) :
           LET g == hist.lb.wgrant[n]
           IN  /\ hist.lb.written[g.cursor].data = Sentinel => g.pid = MainPid
               /\ g.pid \in WorkerPids => hist.lb.written[g.cursor].data # Sentinel
    /\ \A s \in 0..(BUFFER_SIZE - 1) :
           lb.buffer[s].data = Sentinel =>
               \E n \in 1..Len(hist.lb.wgrant) :
                   /\ hist.lb.wgrant[n].pid = MainPid
                   /\ Slot(hist.lb.wgrant[n].cursor) = s
    /\ hist.tb.clears =
           hist.tb.emptyPosts + Cardinality({w \in WorkerPids : pc[w] = "tb_post_empty"})

\* What holds of every step of a worker that leaves the Task Buffer side
C16_Step ==
    \A w \in WorkerPids :
        /\ (pc[w] # "exited" /\ pc'[w] = "exited") =>
               /\ pc[w] = "tb_post_empty"
               /\ loc[w].data = Sentinel
               /\ tb'.empty = tb.empty + 1
               /\ hist'.tb.emptyPosts = hist.tb.emptyPosts + 1
               /\ lb' = lb /\ hist'.lb = hist.lb
        /\ (pc[w] = "tb_post_empty" /\ pc'[w] # pc[w]) =>
               (pc'[w] = "exited" <=> loc[w].data = Sentinel)

\* C16: a worker exits exactly when the payload it consumed is -1, on its
\* post of the Task Buffer's empty semaphore, after it has cleared the ready
\* flag, and without touching the Log Buffer; a worker forwarding to the Log
\* Buffer never holds -1; and every -1 in the Log Buffer was stored by main.
C16_WorkerSentinel == [] C16_State /\ [][C16_Step]_vars

\* A worker has exited on a sentinel, a worker has published a value to the
\* Log Buffer, and main has published a sentinel there.
C16_Witness ==
    /\ \E w \in WorkerPids : pc[w] = "exited"
    /\ \E n \in 1..Len(hist.lb.wgrant) :
           /\ hist.lb.wgrant[n].pid \in WorkerPids
           /\ hist.lb.written[hist.lb.wgrant[n].cursor].complete
    /\ \E n \in 1..Len(hist.lb.wgrant) :
           /\ hist.lb.wgrant[n].pid = MainPid
           /\ hist.lb.written[hist.lb.wgrant[n].cursor].complete
           /\ hist.lb.written[hist.lb.wgrant[n].cursor].data = Sentinel

\* One producer, one worker and one logger on buffers of a single slot, with
\* MIN_TASK_SIZE = 2 and MAX_TASK_SIZE = 3, rand() returning 0..4 for the task
\* size, and 7 and the two largest values of rand() for the payloads.
InitRand ==
    InitCfg(Config(1, 1, 1, 1, 2, 3, [n \in 0..0 |-> 0..4],
                   {7, RAND_MAX - 1, RAND_MAX}))

SpecRand == InitRand /\ [][Next]_vars

\* The write cursors of the Task Buffer granted to the process p
TbGrants(p) ==
    {hist.tb.wgrant[n].cursor : n \in {m \in 1..Len(hist.tb.wgrant) :
                                           hist.tb.wgrant[m].pid = p}}

\* C17: every payload a producer stores in the Task Buffer is in
\* 0 .. INT_MAX-1, so never -1; every -1 stored in the Task Buffer is at a
\* cursor granted to main; and main is granted at most WORKERS cursors,
\* exactly WORKERS once it has left its task-sentinel loop.
C17_NoProducerSentinel ==
    /\ \A q \in ProducerPids : \A k \in TbGrants(q) :
           /\ hist.tb.written[k].data \in 0..(INT_MAX - 1)
           /\ hist.tb.written[k].data # Sentinel
    /\ \A k \in DOMAIN hist.tb.written :
           hist.tb.written[k].data = Sentinel => k \in TbGrants(MainPid)
    /\ \A s \in 0..(BUFFER_SIZE - 1) :
           tb.buffer[s].data = Sentinel =>
               \E k \in TbGrants(MainPid) : Slot(k) = s
    /\ Cardinality(TbGrants(MainPid)) <= WORKERS
    /\ pc[MainPid] \in {"lb_wait_empty", "wait_workers", "wait_loggers", "munmap", "done"}
           => Cardinality(TbGrants(MainPid)) = WORKERS

\* A producer has published the payload of rand() = RAND_MAX, which is 0, and
\* the largest payload INT_MAX - 1, and main has published a sentinel.
C17_Witness ==
    /\ \E q \in ProducerPids : \E j, k \in TbGrants(q) :
           /\ hist.tb.written[j].complete /\ hist.tb.written[j].data = 0
           /\ hist.tb.written[k].complete /\ hist.tb.written[k].data = INT_MAX - 1
    /\ \E k \in TbGrants(MainPid) :
           hist.tb.written[k].complete /\ hist.tb.written[k].data = Sentinel

\* What holds of a producer in its loop
C18_State ==
    \A q \in ProducerPids :
        pc[q] \notin {"unborn", "start", "exited"} =>
            /\ MIN_TASK_SIZE <= loc[q].taskSize
            /\ loc[q].taskSize <= MAX_TASK_SIZE
            /\ loc[q].i < loc[q].taskSize
            /\ Cardinality(TbGrants(q)) =
                   loc[q].i + (IF pc[q] \in TbWriteWindow \cup {"tb_post_full"}
                               THEN 1 ELSE 0)
            /\ \A k \in TbGrants(q) : hist.tb.written[k].data # Sentinel

\* What holds of the step on which a producer exits
C18_Step ==
    \A q \in ProducerPids :
        (pc[q] # "exited" /\ pc'[q] = "exited") =>
            /\ pc[q] = "tb_post_full"
            /\ Cardinality(TbGrants(q)) = loc[q].taskSize
            /\ \A k \in TbGrants(q) : hist.tb.written[k].complete

\* C18: the number of iterations N of a producer satisfies
\* MIN_TASK_SIZE <= N <= MAX_TASK_SIZE; the producer publishes exactly N
\* values, none of them -1, and exits after the N-th.
C18_TaskSizeBounds == [] C18_State /\ [][C18_Step]_vars

\* Two producers of one value each, a single worker and a single logger on
\* buffers of two slots: each buffer has several writers and one consumer.
InitSingle ==
    InitCfg(Config(2, 2, 1, 1, 1, 1, [n \in 0..1 |-> {0}], {7, 42}))

SpecSingle == InitSingle /\ [][Next]_vars

\* With one consumer, what holds of one buffer, given its history h, its
\* slots, its writers in their write window and its readers in their read
\* window (each with the cursor it holds): each write cursor j >= BUFFER_SIZE
\* was granted after j - BUFFER_SIZE + 1 consumes were completed; a writer's
\* slot has ready = 0 and is not being read; the read cursors are 0, 1, 2, ...
\* and not ahead of the write cursors.
SingleConsumerSafe(h, slots, writing, reading) ==
    /\ \A n \in 1..Len(h.wgrant) :
           h.wgrant[n].cursor >= BUFFER_SIZE =>
               /\ h.emptyPosts >= h.wgrant[n].cursor - BUFFER_SIZE + 1
               /\ h.clears >= h.wgrant[n].cursor - BUFFER_SIZE + 1
               /\ Len(h.rgrant) >= h.wgrant[n].cursor - BUFFER_SIZE + 1
    /\ \A j \in writing :
           /\ slots[Slot(j)].ready = 0
           /\ \A k \in reading : Slot(k) # Slot(j)
    /\ \A n \in 1..Len(h.rgrant) : h.rgrant[n].cursor = n - 1
    /\ Len(h.rgrant) <= Len(h.wgrant)

\* The cursors held by the writers and readers that are in their windows
TbWriting == {loc[p].prevIn : p \in {q \in TbWriters : pc[q] \in TbWriteWindow}}
TbReading == {loc[w].prevOut : w \in {q \in WorkerPids : pc[q] \in TbReadWindow}}
LbWriting == {loc[p].prevIn : p \in {q \in LbWriters : pc[q] \in LbWriteWindow}}
LbReading == {loc[l].prevOut : l \in {q \in LoggerPids : pc[q] \in LbReadWindow}}

\* What the single worker and the single logger have read is what was
\* published at their cursor.
SingleConsumerReads ==
    /\ \A w \in WorkerPids :
           pc[w] \in {"tb_clear", "tb_post_empty"} =>
               /\ hist.tb.written[loc[w].prevOut].complete
               /\ hist.tb.written[loc[w].prevOut].data = loc[w].data
    /\ \A l \in LoggerPids :
           pc[l] \in {"lb_clear", "lb_post_empty"} =>
               /\ hist.lb.written[loc[l].prevOut].complete
               /\ hist.lb.written[loc[l].prevOut].data = loc[l].data

\* The part of C19 that is about what may never happen
C19_Safety ==
    /\ SingleConsumerSafe(hist.tb, tb.buffer, TbWriting, TbReading)
    /\ SingleConsumerSafe(hist.lb, lb.buffer, LbWriting, LbReading)
    /\ SingleConsumerReads

\* C19: with one worker and one logger, on each buffer a write cursor
\* j >= BUFFER_SIZE is granted only after the consume of cursor
\* j - BUFFER_SIZE is complete, no writer stores into a slot that is ready
\* or being read, the consumer reads the cursors in order, each once, and
\* gets what was published there; and in a complete run it has read every
\* value published to the buffer.
C19_SingleConsumer ==
    /\ C19_Safety
    /\ pc[MainPid] = "done" =>
           /\ Len(hist.tb.rgrant) = Len(hist.tb.wgrant)
           /\ Len(hist.lb.rgrant) = Len(hist.lb.wgrant)

\* The cursors of the buffer b with history h are the numbers of claims
\* granted, and out <= completed posts of full <= in <= completed posts of
\* empty + BUFFER_SIZE.
CursorsInOrder(b, h) ==
    /\ b.in = Len(h.wgrant)
    /\ b.out = Len(h.rgrant)
    /\ b.out <= h.fullPosts
    /\ h.fullPosts <= b.in
    /\ b.in <= h.emptyPosts + BUFFER_SIZE

\* A cursor stays or grows by one, and it grows exactly with a claim.
CursorStep(old, new, grants, grants2) ==
    /\ new \in {old, old + 1}
    /\ new = old + 1 <=> Len(grants2) = Len(grants) + 1
    /\ Len(grants2) \in {Len(grants), Len(grants) + 1}

C20_Step ==
    /\ CursorStep(tb.in, tb'.in, hist.tb.wgrant, hist'.tb.wgrant)
    /\ CursorStep(tb.out, tb'.out, hist.tb.rgrant, hist'.tb.rgrant)
    /\ CursorStep(lb.in, lb'.in, hist.lb.wgrant, hist'.lb.wgrant)
    /\ CursorStep(lb.out, lb'.out, hist.lb.rgrant, hist'.lb.rgrant)

\* C20: on each buffer the write and the read cursor never decrease, each
\* claim raises one of them by exactly 1, and
\* out <= completed posts of full <= in <= completed posts of empty +
\* BUFFER_SIZE.
C20_CursorInvariant ==
    /\ [](CursorsInOrder(tb, hist.tb) /\ CursorsInOrder(lb, hist.lb))
    /\ [][C20_Step]_vars

\* The Task Buffer has wrapped, its write cursor is a full BUFFER_SIZE ahead
\* of the completed consumes and its read cursor has caught up with the posts
\* of full; the Log Buffer has been written and read.
C20_Witness ==
    /\ tb.in > BUFFER_SIZE
    /\ tb.in = hist.tb.emptyPosts + BUFFER_SIZE
    /\ tb.out = hist.tb.fullPosts
    /\ lb.in > 0 /\ lb.out > 0 /\ lb.out = hist.lb.fullPosts

====
